---- MODULE Spec2Model ----
(***************************************************************************)
(* Model of server/websocket_test_connection.py: the coroutine connect()   *)
(* that opens a websocket, sends one greeting, prints every message it     *)
(* receives and, on a handled connection error, prints a diagnostic,       *)
(* sleeps and reconnects.                                                  *)
(*                                                                         *)
(* The coroutine is one sequential flow of control; pc is its position.    *)
(* Each awaited library call is split in the call (a step of the client)   *)
(* and its outcome (a step of the environment: the peer, the resolver).    *)
(***************************************************************************)
EXTENDS Integers, Sequences, FiniteSets, TLC

\* ---------------------------------------------------------------- bounds
\* iterations of the outer `while True` that are explored
MaxAttempts == 3
\* messages the server delivers in one run
MaxMsgs == 2
\* payloads the server may send
Msgs == {"A", "B"}

\* ------------------------------------------------------------- constants
uri == "ws://painters.segerend.nl:80"
GREETING == "Hello, Server!"
RETRY_DELAY == 5

\* the exception classes named by the except clause
Handled == {"ConnectionClosed", "ConnectionRefusedError", "gaierror"}
\* a class the except clause does not name (InvalidHandshake, TimeoutError, ...)
Unhandled == {"OtherError"}
\* what establishing the connection can raise
ConnectErrors == Handled \cup Unhandled
\* what send and recv on an established connection can raise
StreamErrors == {"ConnectionClosed"} \cup Unhandled

NoHandle == 0
\* the process has not ended
NoExit == -1
\* the interpreter's exit status for an uncaught exception
EXIT_UNCAUGHT == 1
\* the statuses an interrupted run ends with: the script installs no signal
\* handler and catches no KeyboardInterrupt, so the interpreter reports the
\* uncaught KeyboardInterrupt (1, or 130 when it re-raises SIGINT)
InterruptStatus == {1, 130}
NoError == "none"
NoResponse == "none"

\* ------------------------------------------------------- printed lines
ConnectedLine == <<"Connected to server">>
MessageLine(m) == <<"Message from server: ", m>>
FailedLine(err) == <<"Connection failed: ", err, ". Retrying...">>

VARIABLES
    pc,         \* position of the coroutine
    websocket,  \* the name bound by `async with ... as websocket`
    open,       \* connections that are open
    response,   \* the name bound by `response = await websocket.recv()`
    e,          \* the exception in flight / bound by `except ... as e`
    remaining,  \* time units the running time.sleep was asked to take
    clock,      \* time units spent in time.sleep so far
    attempts,   \* calls of websockets.connect so far
    output,     \* standard output, one entry per line
    wire,       \* text frames sent to the server
    trace,      \* history of the calls made and of their outcomes
    exitcode    \* exit status of the process, NoExit while it runs

vars == <<pc, websocket, open, response, e, remaining, clock, attempts,
          output, wire, trace, exitcode>>

Init ==
    /\ pc = "loop"
    /\ websocket = NoHandle
    /\ open = {}
    /\ response = NoResponse
    /\ e = NoError
    /\ remaining = 0
    /\ clock = 0
    /\ attempts = 0
    /\ output = <<>>
    /\ wire = <<>>
    /\ trace = <<>>
    /\ exitcode = NoExit

\* messages recv has returned on connection h
Delivered(h) ==
    LET got == SelectSeq(trace, LAMBDA ev : ev[1] = "msg" /\ ev[2] = h)
    IN [i \in 1..Len(got) |-> got[i][3]]

\* -------------------------------------------------------------- actions
\* variant of Connect: the "Connected to server" line is printed before the
\* connection is established
Connect_PrintFirst ==
    /\ pc = "loop"
    /\ attempts < MaxAttempts
    /\ pc' = "connecting"
    /\ attempts' = attempts + 1
    /\ output' = Append(output, ConnectedLine)
    /\ trace' = Append(trace, <<"connect", uri, clock>>)
    /\ UNCHANGED <<exitcode, websocket, open, response, e, remaining, clock, wire>>

\* `while True:` / `async with websockets.connect(uri)`: the call
Connect ==
    /\ pc = "loop"
    /\ attempts < MaxAttempts
    /\ pc' = "connecting"
    /\ attempts' = attempts + 1
    /\ trace' = Append(trace, <<"connect", uri, clock>>)
    /\ UNCHANGED <<exitcode, websocket, open, response, e, remaining, clock, output, wire>>

\* variant of ConnectOk: the connection object of the first attempt is kept
\* and used again
ConnectOk_Reuse ==
    /\ pc = "connecting"
    /\ pc' = "connected"
    /\ websocket' = IF websocket = NoHandle THEN attempts ELSE websocket
    /\ open' = open \cup {websocket'}
    /\ trace' = Append(trace, <<"opened", websocket'>>)
    /\ UNCHANGED <<exitcode, response, e, remaining, clock, attempts, output, wire>>

\* the handshake succeeds: `as websocket` binds a new connection
ConnectOk ==
    /\ pc = "connecting"
    /\ pc' = "connected"
    /\ websocket' = attempts
    /\ open' = open \cup {attempts}
    /\ trace' = Append(trace, <<"opened", attempts>>)
    /\ UNCHANGED <<exitcode, response, e, remaining, clock, attempts, output, wire>>

\* establishing the connection raises: the with body is not entered
ConnectFail(err) ==
    /\ pc = "connecting"
    /\ pc' = "except"
    /\ e' = err
    /\ trace' = Append(trace, <<"raise", NoHandle, err, "connect">>)
    /\ UNCHANGED <<exitcode, websocket, open, response, remaining, clock, attempts, output, wire>>

\* print("Connected to server")
PrintConnected ==
    /\ pc = "connected"
    /\ pc' = "send"
    /\ output' = Append(output, ConnectedLine)
    /\ trace' = Append(trace, <<"print", ConnectedLine>>)
    /\ UNCHANGED <<exitcode, websocket, open, response, e, remaining, clock, attempts, wire>>

\* variant of Send: the greeting is sent again while a recv is waiting
Send_KeepAlive ==
    /\ pc \in {"send", "receiving"}
    /\ pc' = "sending"
    /\ trace' = Append(trace, <<"send", websocket, GREETING>>)
    /\ UNCHANGED <<exitcode, websocket, open, response, e, remaining, clock, attempts, output, wire>>

\* await websocket.send("Hello, Server!"): the call
Send ==
    /\ pc = "send"
    /\ pc' = "sending"
    /\ trace' = Append(trace, <<"send", websocket, GREETING>>)
    /\ UNCHANGED <<exitcode, websocket, open, response, e, remaining, clock, attempts, output, wire>>

\* the send completes
SendOk ==
    /\ pc = "sending"
    /\ pc' = "recv"
    /\ wire' = Append(wire, <<websocket, GREETING>>)
    /\ trace' = Append(trace, <<"sent", websocket>>)
    /\ UNCHANGED <<exitcode, websocket, open, response, e, remaining, clock, attempts, output>>

\* variant of SendFail: a failed greeting is ignored and the receive loop
\* is entered
SendFail_Ignore(err) ==
    /\ pc = "sending"
    /\ pc' = IF err \in Handled THEN "recv" ELSE "aexit"
    /\ e' = err
    /\ trace' = Append(trace, <<"raise", websocket, err, "send">>)
    /\ UNCHANGED <<exitcode, websocket, open, response, remaining, clock, attempts, output, wire>>

\* the send raises
SendFail(err) ==
    /\ pc = "sending"
    /\ pc' = "aexit"
    /\ e' = err
    /\ trace' = Append(trace, <<"raise", websocket, err, "send">>)
    /\ UNCHANGED <<exitcode, websocket, open, response, remaining, clock, attempts, output, wire>>

\* inner `while True:` / await websocket.recv(): the call
Recv ==
    /\ pc = "recv"
    /\ pc' = "receiving"
    /\ trace' = Append(trace, <<"recv", websocket>>)
    /\ UNCHANGED <<exitcode, websocket, open, response, e, remaining, clock, attempts, output, wire>>

\* recv returns the next message
RecvOk(m) ==
    /\ pc = "receiving"
    /\ Cardinality({i \in DOMAIN trace : trace[i][1] = "msg"}) < MaxMsgs
    /\ pc' = "print"
    /\ response' = m
    /\ trace' = Append(trace, <<"msg", websocket, m>>)
    /\ UNCHANGED <<exitcode, websocket, open, e, remaining, clock, attempts, output, wire>>

\* variant of RecvFail: the receive loop ends normally when the connection
\* is closed (as `async for message in websocket` does), the with block is
\* left without an exception and control falls through to the sleep
RecvFail_Break(err) ==
    /\ pc = "receiving"
    /\ pc' = IF err \in Handled THEN "sleep" ELSE "aexit"
    /\ e' = IF err \in Handled THEN e ELSE err
    /\ open' = IF err \in Handled THEN open \ {websocket} ELSE open
    /\ trace' = IF err \in Handled
                THEN Append(trace, <<"close", websocket>>)
                ELSE Append(trace, <<"raise", websocket, err, "recv">>)
    /\ UNCHANGED <<exitcode, websocket, response, remaining, clock, attempts, output, wire>>

\* variant of RecvFail: a closed connection is handled inside the receive
\* loop, which goes on to the next recv
RecvFail_Inner(err) ==
    /\ pc = "receiving"
    /\ pc' = IF err \in Handled THEN "recv" ELSE "aexit"
    /\ e' = err
    /\ trace' = Append(trace, <<"raise", websocket, err, "recv">>)
    /\ UNCHANGED <<exitcode, websocket, open, response, remaining, clock, attempts, output, wire>>

\* recv raises
RecvFail(err) ==
    /\ pc = "receiving"
    /\ pc' = "aexit"
    /\ e' = err
    /\ trace' = Append(trace, <<"raise", websocket, err, "recv">>)
    /\ UNCHANGED <<exitcode, websocket, open, response, remaining, clock, attempts, output, wire>>

\* variant of PrintMessage: the greeting is inside the receive loop
PrintMessage_Regreet ==
    /\ pc = "print"
    /\ pc' = "send"
    /\ output' = Append(output, MessageLine(response))
    /\ trace' = Append(trace, <<"print", MessageLine(response)>>)
    /\ UNCHANGED <<exitcode, websocket, open, response, e, remaining, clock, attempts, wire>>

\* variant of PrintMessage: a message equal to the one before it is not
\* printed again
PrintMessage_Dedup ==
    /\ pc = "print"
    /\ pc' = "recv"
    /\ output' = IF output # <<>> /\ output[Len(output)] = MessageLine(response)
                 THEN output
                 ELSE Append(output, MessageLine(response))
    /\ trace' = IF output' = output THEN trace
                ELSE Append(trace, <<"print", MessageLine(response)>>)
    /\ UNCHANGED <<exitcode, websocket, open, response, e, remaining, clock, attempts, wire>>

\* print(f"Message from server: {response}")
PrintMessage ==
    /\ pc = "print"
    /\ pc' = "recv"
    /\ output' = Append(output, MessageLine(response))
    /\ trace' = Append(trace, <<"print", MessageLine(response)>>)
    /\ UNCHANGED <<exitcode, websocket, open, response, e, remaining, clock, attempts, wire>>

\* variant of AExit: the connection is not closed when the block is left
AExit_NoClose ==
    /\ pc = "aexit"
    /\ pc' = "except"
    /\ UNCHANGED <<exitcode, websocket, open, response, e, remaining, clock, attempts,
                   output, wire, trace>>

\* the exception leaves the `async with` block: the connection is closed,
\* the name websocket stays bound
AExit ==
    /\ pc = "aexit"
    /\ pc' = "except"
    /\ open' = open \ {websocket}
    /\ trace' = Append(trace, <<"close", websocket>>)
    /\ UNCHANGED <<exitcode, websocket, response, e, remaining, clock, attempts, output, wire>>

\* variant of HandleFailure: the handler goes straight to the next
\* iteration, without the sleep
HandleFailure_NoSleep ==
    /\ pc = "except"
    /\ e \in Handled
    /\ pc' = "loop"
    /\ output' = Append(output, FailedLine(e))
    /\ trace' = Append(trace, <<"print", FailedLine(e)>>)
    /\ UNCHANGED <<exitcode, websocket, open, response, e, remaining, clock, attempts, wire>>

\* except (ConnectionClosed, ConnectionRefusedError, socket.gaierror) as e:
\*     print(f"Connection failed: {e}. Retrying...")
HandleFailure ==
    /\ pc = "except"
    /\ e \in Handled
    /\ pc' = "sleep"
    /\ output' = Append(output, FailedLine(e))
    /\ trace' = Append(trace, <<"print", FailedLine(e)>>)
    /\ UNCHANGED <<exitcode, websocket, open, response, e, remaining, clock, attempts, wire>>

\* variant of Propagate: the except clause catches every exception
Propagate_CatchAll ==
    /\ pc = "except"
    /\ e \notin Handled
    /\ pc' = "sleep"
    /\ output' = Append(output, FailedLine(e))
    /\ trace' = Append(trace, <<"print", FailedLine(e)>>)
    /\ UNCHANGED <<exitcode, websocket, open, response, e, remaining, clock, attempts, wire>>

\* variant of Propagate: the exception is swallowed at the top level and the
\* script ends normally
Propagate_ExitZero ==
    /\ pc = "except"
    /\ e \notin Handled
    /\ pc' = "terminated"
    /\ exitcode' = 0
    /\ trace' = Append(trace, <<"exit", e>>)
    /\ UNCHANGED <<websocket, open, response, e, remaining, clock, attempts, output, wire>>

\* no except clause matches: the exception leaves connect() and
\* run_until_complete, the process ends with the interpreter's status for
\* an uncaught exception
Propagate ==
    /\ pc = "except"
    /\ e \notin Handled
    /\ pc' = "terminated"
    /\ exitcode' = EXIT_UNCAUGHT
    /\ trace' = Append(trace, <<"exit", e>>)
    /\ UNCHANGED <<websocket, open, response, e, remaining, clock, attempts, output, wire>>

\* variant of Sleep: an address-resolution failure is retried after one
\* time unit
Sleep_ByKind ==
    /\ pc = "sleep"
    /\ pc' = "sleeping"
    /\ remaining' = IF e = "gaierror" THEN 1 ELSE RETRY_DELAY
    /\ trace' = Append(trace, <<"sleep", remaining'>>)
    /\ UNCHANGED <<exitcode, websocket, open, response, e, clock, attempts, output, wire>>

\* time.sleep(5): the call
Sleep ==
    /\ pc = "sleep"
    /\ pc' = "sleeping"
    /\ remaining' = RETRY_DELAY
    /\ trace' = Append(trace, <<"sleep", RETRY_DELAY>>)
    /\ UNCHANGED <<exitcode, websocket, open, response, e, clock, attempts, output, wire>>

\* variant of Wake: the outer loop is left after the sleep
Wake_Break ==
    /\ pc = "sleeping"
    /\ pc' = "terminated"
    /\ exitcode' = 0
    /\ remaining' = 0
    /\ clock' = clock + remaining
    /\ UNCHANGED <<websocket, open, response, e, attempts, output, wire, trace>>

\* time.sleep returns when the time asked for has passed; the thread was
\* blocked meanwhile; control is back at the outer `while True`
Wake ==
    /\ pc = "sleeping"
    /\ pc' = "loop"
    /\ remaining' = 0
    /\ clock' = clock + remaining
    /\ UNCHANGED <<exitcode, websocket, open, response, e, attempts, output, wire, trace>>

Next ==
    \/ Connect
    \/ ConnectOk
    \/ \E err \in ConnectErrors : ConnectFail(err)
    \/ PrintConnected
    \/ Send
    \/ SendOk
    \/ \E err \in StreamErrors : SendFail(err)
    \/ Recv
    \/ \E m \in Msgs : RecvOk(m)
    \/ \E err \in StreamErrors : RecvFail(err)
    \/ PrintMessage
    \/ AExit
    \/ HandleFailure
    \/ Propagate
    \/ Sleep
    \/ Wake

Spec == Init /\ [][Next]_vars

TypeOK ==
    /\ pc \in {"loop", "connecting", "connected", "send", "sending", "recv",
               "receiving", "print", "aexit", "except", "sleep", "sleeping",
               "terminated"}
    /\ websocket \in 0..MaxAttempts
    /\ open \subseteq 1..MaxAttempts
    /\ response \in Msgs \cup {NoResponse}
    /\ e \in ConnectErrors \cup {NoError}
    /\ remaining \in 0..RETRY_DELAY
    /\ attempts \in 0..MaxAttempts
    /\ exitcode \in {NoExit, EXIT_UNCAUGHT} \cup InterruptStatus

\* ------------------------------------------------- reading the history
\* positions of the events of one kind
Pos(kind) == {i \in DOMAIN trace : trace[i][1] = kind}

\* positions of the events of one kind on connection h
PosOn(kind, h) == {i \in Pos(kind) : trace[i][2] = h}

\* connections that were established
Opened == {trace[i][2] : i \in Pos("opened")}

\* the lines the history says were printed, in order
PrintedLines ==
    LET prints == SelectSeq(trace, LAMBDA ev : ev[1] = "print")
    IN [i \in 1..Len(prints) |-> prints[i][2]]

\* the "Message from server" lines printed while connection h was current
MessageLinesOf(h) ==
    LET start == CHOOSE i \in PosOn("opened", h) : TRUE
        later == {j \in (start + 1)..Len(trace) : trace[j][1] = "connect"}
        stop == IF later = {} THEN Len(trace) + 1
                ELSE CHOOSE j \in later : \A l \in later : j <= l
        prints == SelectSeq(SubSeq(trace, start + 1, stop - 1),
                            LAMBDA ev : /\ ev[1] = "print"
                                        /\ ev[2][1] = MessageLine("")[1])
    IN [i \in 1..Len(prints) |-> prints[i][2]]

\* the first N connect attempts have failed with a handled exception
FirstNFailed(N) ==
    /\ N <= attempts
    /\ \A k \in 1..N :
          /\ 4 * (k - 1) + 2 <= Len(trace)
          /\ trace[4 * (k - 1) + 1][1] = "connect"
          /\ trace[4 * (k - 1) + 2][1] = "raise"
          /\ trace[4 * (k - 1) + 2][3] \in Handled

\* ---------------------------------------------------------------- C1
\* C1: when the first N connect attempts fail with a handled exception, the
\* history is N times (connect, raise, one "Connection failed" line, one
\* sleep of RETRY_DELAY) and then the (N+1)-th connect, made when exactly
\* N * RETRY_DELAY time units have been slept; the process does not end
\* before that connect.
C1_RetryInvariant ==
    \A N \in 0..attempts :
        FirstNFailed(N) =>
            /\ Len(trace) <= 4 * N + 1 => pc # "terminated"
            /\ \A i \in Pos("exit") : i > 4 * N + 1
            /\ \A k \in 1..N :
                  LET b == 4 * (k - 1) IN
                  /\ trace[b + 1] = <<"connect", uri, (k - 1) * RETRY_DELAY>>
                  /\ b + 3 <= Len(trace) =>
                        trace[b + 3] = <<"print", FailedLine(trace[b + 2][3])>>
                  /\ b + 4 <= Len(trace) =>
                        trace[b + 4] = <<"sleep", RETRY_DELAY>>
                  /\ b + 5 <= Len(trace) =>
                        trace[b + 5] = <<"connect", uri, k * RETRY_DELAY>>
            /\ attempts = N =>
                  /\ pc \in {"except", "sleep", "sleeping", "loop"}
                  /\ Cardinality(Pos("connect")) = N
                  /\ Cardinality(Pos("sleep")) \in {N - 1, N}
            /\ attempts > N =>
                  /\ Cardinality({i \in Pos("connect") : i <= 4 * N + 1}) = N + 1
                  /\ Cardinality({i \in Pos("sleep") : i <= 4 * N + 1}) = N
                  /\ trace[4 * N + 1][3] = N * RETRY_DELAY

\* two refusals, then the third attempt is under way
C1_Witness ==
    /\ FirstNFailed(2)
    /\ attempts = 3
    /\ pc = "connecting"
    /\ \A k \in 1..2 : trace[4 * (k - 1) + 2][3] = "ConnectionRefusedError"

\* ---------------------------------------------------------------- C2
\* C2: on every established connection the greeting is sent at most once,
\* whatever number of messages is received; once the client is in the
\* receive loop, or the connection is over, it has been sent exactly once;
\* and every recv call on the connection comes after the send call.
C2_SingleGreeting ==
    /\ \A i \in DOMAIN wire : wire[i][2] = GREETING
    /\ \A h \in Opened :
          LET sends == PosOn("send", h)
              sents == PosOn("sent", h)
              frames == {i \in DOMAIN wire : wire[i][1] = h}
          IN /\ Cardinality(sends) <= 1
             /\ \A i \in sends : trace[i][3] = GREETING
             /\ Cardinality(frames) <= 1
             /\ (h # websocket \/ pc \notin {"connected", "send"}) =>
                   Cardinality(sends) = 1
             /\ \A r \in PosOn("recv", h) :
                   /\ \E i \in sends : i < r
                   /\ \E i \in sents : i < r
                   /\ Cardinality(frames) = 1

\* a connection on which two messages were received and a further recv is
\* under way
C2_Witness ==
    /\ pc = "receiving"
    /\ Len(Delivered(websocket)) = 2
    /\ Cardinality(PosOn("send", websocket)) = 1

\* ---------------------------------------------------------------- C3
\* C3: for every established connection the "Message from server" lines
\* printed are the messages recv returned on it, in order and unaltered
\* (the last one may still be about to be printed); every message is
\* printed by the event right after its receipt, so before the next recv
\* call; and standard output is exactly the lines the history records.
C3_MessageOrdering ==
    /\ output = PrintedLines
    /\ \A h \in Opened :
          LET D == Delivered(h)
              L == MessageLinesOf(h)
              pending == IF h = websocket /\ pc = "print" THEN 1 ELSE 0
          IN /\ Len(L) = Len(D) - pending
             /\ \A i \in 1..Len(L) : L[i] = MessageLine(D[i])
             /\ pending = 1 => response = D[Len(D)]
    /\ \A i \in Pos("msg") :
          i < Len(trace) => trace[i + 1] = <<"print", MessageLine(trace[i][3])>>

\* two different messages were received and printed on one connection
C3_Witness ==
    /\ pc = "recv"
    /\ Delivered(websocket) = <<"B", "A">>
    /\ MessageLinesOf(websocket) = <<MessageLine("B"), MessageLine("A")>>

\* ---------------------------------------------------------------- C4
\* C4: after an exception that the except clause does not name is raised by
\* connect, send or recv, the only events are the closing of the connection
\* and the end of the process: no line is printed (no "Connection failed"
\* line for it is on standard output), no sleep and no connect is made, the
\* coroutine is unwinding or the process has ended, and once it has ended
\* no step is possible.
C4_FatalIsolation ==
    \A i \in Pos("raise") :
        trace[i][3] \notin Handled =>
            /\ \A j \in (i + 1)..Len(trace) : trace[j][1] \in {"close", "exit"}
            /\ \A k \in DOMAIN output : output[k] # FailedLine(trace[i][3])
            /\ Cardinality({j \in Pos("connect") : j > i}) = 0
            /\ pc \in {"aexit", "except", "terminated"}
            /\ remaining = 0
            /\ trace[Len(trace)][1] = "exit" =>
                  /\ pc = "terminated"
                  /\ ~ ENABLED Next

\* the process has ended on an unhandled exception raised by recv, on the
\* second connection, after a handled failure
C4_Witness ==
    /\ pc = "terminated"
    /\ \E i \in Pos("raise") :
          /\ trace[i][3] \in Unhandled
          /\ trace[i][4] = "recv"
          /\ trace[i][2] = 2
    /\ \E k \in DOMAIN output : output[k] = FailedLine("ConnectionClosed")

\* ---------------------------------------------------------------- C5
\* the position after which the handler runs for the exception raised at i:
\* the with block is left first when the connection was established
HandlerFrom(i) == IF trace[i][4] = "connect" THEN i ELSE i + 1

\* the events after the handled exception raised at position i are one
\* "Connection failed" line with the error, one sleep of RETRY_DELAY and a
\* connect made RETRY_DELAY time units after the connect of this attempt
RetryPath(i) ==
    LET k == HandlerFrom(i)
        c == CHOOSE j \in Pos("connect") :
                 /\ j < i
                 /\ \A l \in Pos("connect") : l < i => l <= j
    IN /\ k + 1 <= Len(trace) =>
             /\ trace[k + 1][1] = "print"
             /\ trace[k + 1][2] = FailedLine(trace[i][3])
       /\ k + 2 <= Len(trace) =>
             /\ trace[k + 2][1] = "sleep"
             /\ trace[k + 2][2] = RETRY_DELAY
       /\ k + 3 <= Len(trace) =>
             /\ trace[k + 3][1] = "connect"
             /\ trace[k + 3][3] = trace[c][3] + RETRY_DELAY

\* C5: a handled exception raised by send or recv on an established
\* connection ends the attempt: the connection is closed, then the same
\* path is taken as after a failed connect (one "Connection failed" line,
\* one sleep of RETRY_DELAY, a new connect), and no send or recv is made on
\* the old connection afterwards.
C5_MidStreamFailure ==
    /\ \A i \in Pos("raise") :
          (trace[i][3] \in Handled /\ trace[i][4] \in {"send", "recv"}) =>
              LET h == trace[i][2] IN
              /\ Len(trace) = i => pc = "aexit"
              /\ i + 1 <= Len(trace) =>
                    /\ trace[i + 1][1] = "close"
                    /\ trace[i + 1][2] = h
              /\ RetryPath(i)
              /\ \A j \in (i + 1)..Len(trace) :
                    trace[j][1] \in {"send", "sent", "recv", "msg", "opened"}
                        => trace[j][2] # h
              /\ Cardinality({j \in DOMAIN wire : wire[j][1] = h}) <= 1
    /\ \A i \in Pos("raise") :
          (trace[i][3] \in Handled /\ trace[i][4] = "connect") => RetryPath(i)

\* scenario B: "A" and "B" are received, the connection closes, and the
\* next connect attempt is under way
C5_Witness ==
    /\ pc = "connecting"
    /\ attempts = 2
    /\ output = <<ConnectedLine, MessageLine("A"), MessageLine("B"),
                  FailedLine("ConnectionClosed")>>
    /\ clock = RETRY_DELAY

\* ---------------------------------------------------------------- C6
\* the call at position j has its outcome before position c
Settled(j, c) ==
    /\ j + 1 < c
    /\ trace[j][1] = "connect" => trace[j + 1][1] \in {"opened", "raise"}
    /\ trace[j][1] = "send" => trace[j + 1][1] \in {"sent", "raise"}
    /\ trace[j][1] = "recv" => trace[j + 1][1] \in {"msg", "raise"}

\* C6: at most one connection is open in any state; when a connect attempt
\* is started every connection of an earlier attempt has been closed, every
\* earlier connect, send and recv has returned or raised, and the sleep
\* before it has run its full RETRY_DELAY; while a connect is awaited no
\* connection is open and no sleep is running.
C6_OneAttempt ==
    /\ Cardinality(open) <= 1
    /\ pc = "connecting" => (open = {} /\ remaining = 0)
    /\ pc = "sleeping" => open = {}
    /\ LET connects == Pos("connect")
           openeds == Pos("opened")
           closes == Pos("close")
           calls == connects \cup Pos("send") \cup Pos("recv")
       IN \A c \in connects :
             /\ \A o \in openeds :
                   o < c => \E x \in closes :
                               trace[x][2] = trace[o][2] /\ o < x /\ x < c
             /\ \A j \in calls : j < c => Settled(j, c)
             /\ c > 1 =>
                   /\ trace[c - 1][1] = "sleep"
                   /\ \E b \in connects :
                         b < c /\ trace[c][3] = trace[b][3] + RETRY_DELAY

\* a connect attempt is under way after an attempt that had a connection
C6_Witness ==
    /\ pc = "connecting"
    /\ Opened # {}
    /\ attempts = 3

\* ---------------------------------------------------------------- C7
\* the steps the coroutine takes by itself; the outcomes of connect, send
\* and recv are the environment's and may never come
ClientStep ==
    \/ Connect
    \/ PrintConnected
    \/ Send
    \/ Recv
    \/ PrintMessage
    \/ AExit
    \/ HandleFailure
    \/ Propagate
    \/ Sleep
    \/ Wake

\* the coroutine is run to completion by the event loop and time.sleep
\* returns: a step of the client that stays possible is taken
FairSpec == Spec /\ WF_vars(ClientStep)

\* only handled exceptions have been raised
OnlyHandledFailures == \A i \in Pos("raise") : trace[i][3] \in Handled

\* C7: as long as only handled exceptions are raised the process does not
\* end, and after every handled exception, raised by connect or on an
\* established connection, the next connect attempt is eventually started
\* (within the attempts explored).
C7_NoTerminalState ==
    /\ [](OnlyHandledFailures => pc # "terminated")
    /\ \A n \in 1..(MaxAttempts - 1) :
          (attempts = n /\ pc \in {"aexit", "except"} /\ e \in Handled)
              ~> (attempts = n + 1)

\* a connection was closed by the peer during recv, a later connect was
\* refused, and a further connect attempt is under way
C7_Witness ==
    /\ pc = "connecting"
    /\ attempts = 3
    /\ OnlyHandledFailures
    /\ \E i, j \in Pos("raise") :
          /\ i < j
          /\ trace[i][4] = "recv"
          /\ trace[j][3] = "ConnectionRefusedError"

\* ---------------------------------------------------------------- C8
\* C8: for every handled exception, whichever of the three it is, the
\* handler's step prints one "Connection failed" line that contains the
\* exception and goes to the sleep; the sleep is of RETRY_DELAY time units;
\* the only step out of it is its return, RETRY_DELAY time units later,
\* with nothing printed, sent, received or connected meanwhile; after it
\* the next step is the connect call.
C8_Backoff ==
    [][
        /\ (pc = "except" /\ e \in Handled) =>
              /\ pc' = "sleep"
              /\ output' = Append(output, FailedLine(e))
              /\ \E k \in DOMAIN FailedLine(e) : output'[Len(output')][k] = e
              /\ UNCHANGED <<wire, attempts, clock, open, remaining>>
        /\ pc = "sleep" =>
              /\ pc' = "sleeping"
              /\ remaining' = RETRY_DELAY
              /\ UNCHANGED <<output, wire, attempts, clock, open>>
        /\ pc = "sleeping" =>
              /\ UNCHANGED <<output, wire, attempts, open, websocket, trace>>
              /\ pc' = "loop"
              /\ clock' = clock + RETRY_DELAY
        /\ (pc = "loop" /\ attempts > 0) =>
              /\ pc' = "connecting"
              /\ attempts' = attempts + 1
              /\ clock = attempts * RETRY_DELAY
    ]_vars

\* the third sleep is running, after one failure of each handled kind
C8_Witness ==
    /\ pc = "sleeping"
    /\ remaining = RETRY_DELAY
    /\ {trace[i][3] : i \in Pos("raise")} = Handled
    /\ Len(output) = 3

\* ---------------------------------------------------------------- C9
\* the number of "Connected to server" lines on standard output
ConnectedLines == Cardinality({k \in DOMAIN output : output[k] = ConnectedLine})

\* every connect attempt whose outcome is known failed with gaierror
OnlyResolutionFailures ==
    \A c \in Pos("connect") :
        c < Len(trace) =>
            /\ trace[c + 1][1] = "raise"
            /\ trace[c + 1][3] = "gaierror"

\* C9: standard output has one "Connected to server" line per established
\* connection (the line of the newest may be about to be printed); the line
\* is printed right after the connection is established and right before
\* the greeting is sent; and when every connect attempt fails with gaierror
\* standard output holds only "Connection failed" lines, one per failure,
\* and no greeting is sent.
C9_ConnectedLine ==
    /\ ConnectedLines =
          Cardinality(Pos("opened")) - (IF pc = "connected" THEN 1 ELSE 0)
    /\ \A i \in Pos("print") :
          trace[i][2] = ConnectedLine => trace[i - 1][1] = "opened"
    /\ \A i \in Pos("send") :
          /\ trace[i - 1][1] = "print"
          /\ trace[i - 1][2] = ConnectedLine
          /\ trace[i - 2][1] = "opened"
          /\ trace[i - 2][2] = trace[i][2]
    /\ OnlyResolutionFailures =>
          /\ \A k \in DOMAIN output : output[k] = FailedLine("gaierror")
          /\ Len(output) =
                Cardinality(Pos("raise")) - (IF pc = "except" THEN 1 ELSE 0)
          /\ wire = <<>>
          /\ Pos("send") = {}

\* two resolution failures, then a connection: its line is printed and the
\* greeting is about to be sent
C9_Witness ==
    /\ pc = "send"
    /\ output = <<FailedLine("gaierror"), FailedLine("gaierror"), ConnectedLine>>
    /\ wire = <<>>

\* --------------------------------------------------------------- C10
\* C10: a connection is open only from the moment it is established to the
\* moment the with block is left: none is open while the failure is
\* handled, during the sleep, at the next connect or after the process has
\* ended; the open one is the one bound to websocket; and every established
\* connection is a new one, on which all sends and recvs of its attempt are
\* made.
C10_HandleLifecycle ==
    /\ pc \in {"loop", "connecting", "except", "sleep", "sleeping", "terminated"}
          => open = {}
    /\ pc \in {"connected", "send", "sending", "recv", "receiving", "print", "aexit"}
          => (open = {websocket} /\ websocket # NoHandle)
    /\ LET connects == Pos("connect")
           openeds == Pos("opened")
       IN /\ \A i, j \in openeds : i # j => trace[i][2] # trace[j][2]
          /\ \A i \in Pos("send") \cup Pos("recv") :
                \E o \in openeds :
                    /\ trace[o][2] = trace[i][2]
                    /\ o < i
                    /\ \A c \in connects : c < o \/ c > i

\* the second connection is in use, the first one is closed
C10_Witness ==
    /\ pc = "receiving"
    /\ Cardinality(Opened) = 2
    /\ Cardinality(Pos("close")) = 1
    /\ open = {websocket}

\* --------------------------------------------------------------- C11
\* C11: while recv is awaited the client can take no step of its own (no
\* timeout, no reconnect, no second greeting, no print), so it may stay
\* there for ever; the only steps out are recv returning a message or
\* raising, on the current connection, and such a step prints nothing,
\* sends nothing, starts no connect and lets no time of a sleep pass.
C11_BlockedInRecv ==
    /\ [](pc = "receiving" => ~ ENABLED ClientStep)
    /\ [][pc = "receiving" =>
            /\ Len(trace') = Len(trace) + 1
            /\ trace'[Len(trace')][1] \in {"msg", "raise"}
            /\ trace'[Len(trace')][2] = websocket
            /\ pc' \in {"print", "aexit"}
            /\ UNCHANGED <<output, wire, attempts, clock, remaining, open, websocket>>
       ]_vars

\* the first connection has delivered one message, which was printed, and
\* the next recv is awaited
C11_Witness ==
    /\ pc = "receiving"
    /\ attempts = 1
    /\ Len(Delivered(websocket)) = 1
    /\ Len(output) = 2
    /\ wire = <<<<websocket, GREETING>>>>

\* --------------------------------------------------------------- C13
\* the number of "Connection failed" lines on standard output
FailedLines ==
    Cardinality({k \in DOMAIN output : output[k][1] = FailedLine("")[1]})

\* C13: every sleep is called right after a "Connection failed" line is
\* printed, and is of RETRY_DELAY time units; the number of sleeps called
\* is the number of "Connection failed" lines printed, or one less exactly
\* when the line is printed and the sleep is about to be called.
C13_PauseAfterFailure ==
    LET sleeps == Pos("sleep") IN
    /\ \A i \in sleeps :
          /\ i > 1
          /\ trace[i - 1][1] = "print"
          /\ trace[i - 1][2][1] = FailedLine("")[1]
          /\ trace[i][2] = RETRY_DELAY
    /\ Cardinality(sleeps) = FailedLines - (IF pc = "sleep" THEN 1 ELSE 0)
    /\ clock = RETRY_DELAY * (Cardinality(sleeps) - (IF pc = "sleeping" THEN 1 ELSE 0))

\* a connection that delivered a message was closed during recv, the line
\* is printed and the sleep is about to be called
C13_Witness ==
    /\ pc = "sleep"
    /\ output = <<ConnectedLine, MessageLine("A"), FailedLine("ConnectionClosed")>>
    /\ Pos("sleep") = {}

\* --------------------------------------------------------------- C14
\* C14: the greetings sent are at most the "Connected to server" lines,
\* which are at most the connect attempts made; a message is received and
\* printed only on a connection whose greeting send has completed; and on
\* a connection whose greeting send raised no recv is ever called.
C14_CounterOrdering ==
    /\ Len(wire) <= ConnectedLines
    /\ ConnectedLines <= attempts
    /\ attempts = Cardinality(Pos("connect"))
    /\ Len(wire) = Cardinality(Pos("sent"))
    /\ LET sents == Pos("sent")
           recvs == Pos("recv")
       IN /\ \A i \in Pos("msg") :
                /\ \E j \in sents : j < i /\ trace[j][2] = trace[i][2]
                /\ \E k \in DOMAIN wire : wire[k][1] = trace[i][2]
          /\ \A i \in Pos("raise") :
                trace[i][4] = "send" =>
                    /\ \A r \in recvs : trace[r][2] # trace[i][2]
                    /\ \A k \in DOMAIN wire : wire[k][1] # trace[i][2]
                    /\ Delivered(trace[i][2]) = <<>>
    /\ Cardinality({k \in DOMAIN output : output[k][1] = MessageLine("")[1]})
          <= Cardinality(Pos("msg"))

\* the greeting of the first connection failed; the second connection has
\* received and printed a message
C14_Witness ==
    /\ pc = "recv"
    /\ output = <<ConnectedLine, FailedLine("ConnectionClosed"),
                  ConnectedLine, MessageLine("B")>>
    /\ Len(wire) = 1
    /\ attempts = 2

\* --------------------------------------------------------------- C12
\* the process is interrupted from outside (Ctrl-C): KeyboardInterrupt is
\* not an Exception the except clause names, it leaves connect() wherever
\* the coroutine is, and the operating system closes the socket
Interrupt(status) ==
    /\ pc # "terminated"
    /\ pc' = "terminated"
    /\ exitcode' = status
    /\ open' = {}
    /\ trace' = Append(trace, <<"interrupt", status>>)
    /\ UNCHANGED <<websocket, response, e, remaining, clock, attempts, output, wire>>

NextExt ==
    \/ Next
    \/ \E status \in InterruptStatus : Interrupt(status)

\* the client in an environment that may interrupt it
SpecExt == Init /\ [][NextExt]_vars

\* C12: the exit status is 0 only in a run that was interrupted from
\* outside; a run that ends without an interrupt ends because an exception
\* the except clause does not name has left connect(), and its status is
\* the non-zero status of an uncaught exception; the process has an exit
\* status exactly when it has ended.
C12_ExitCode ==
    /\ exitcode = 0 => Pos("interrupt") # {}
    /\ Pos("exit") # {} =>
          /\ exitcode # 0
          /\ exitcode # NoExit
          /\ \E i \in Pos("raise") : trace[i][3] \notin Handled
    /\ (pc = "terminated" /\ Pos("interrupt") = {}) =>
          /\ exitcode = EXIT_UNCAUGHT
          /\ Pos("exit") # {}
    /\ (pc = "terminated") <=> (exitcode # NoExit)

\* an unhandled exception raised by send on the second connection has left
\* connect(): the process has ended with status 1, not interrupted
C12_Witness ==
    /\ pc = "terminated"
    /\ exitcode = EXIT_UNCAUGHT
    /\ Pos("interrupt") = {}
    /\ \E i \in Pos("raise") :
          /\ trace[i][3] \in Unhandled
          /\ trace[i][4] = "send"
          /\ trace[i][2] = 2
====
